---- MODULE Spec2Model ----
(***************************************************************************)
(* Model of src/move_point.py: points of a point layer are assigned to the *)
(* rectangles that contain them and moved to the next rectangle of the     *)
(* X-sorted ring, inside one edit session that is committed or rolled back.*)
(*                                                                         *)
(* Coordinates are integers.  A rectangle is an axis-aligned polygon       *)
(* [xmin, ymin, xmax, ymax] whose corner sums are even, so that its        *)
(* centroid is the integer midpoint.  A feature is [id, geom]; a layer     *)
(* file is the sequence of its geometries in enumeration order and the     *)
(* feature id is the position in that sequence.                            *)
(***************************************************************************)
EXTENDS Integers, Sequences, FiniteSets

VARIABLES
    pc,            \* position of the process
    points_file,   \* durable content of the point data source
    rects_file,    \* durable content of the rectangle data source
    point_layer,   \* handle returned by load_layer(points): "None" or "layer"
    rect_layer,    \* handle returned by load_layer(rects): "None" or "layer"
    sorted_rects,  \* result of get_sorted_rectangles
    rect_index,    \* result of create_spatial_index: id -> bounding box
    point_map,     \* result of map_points_to_rectangles: id -> list of features
    editing,       \* the point layer has an open edit session
    edit_buffer,   \* staged geometry changes of the session: set of [id, geom]
    i,             \* loop index of move_points
    success,       \* value returned by move_points / process_layers
    exit_code,     \* exit status of the process ("none" while running)
    session,       \* history: edit-session calls made on the point layer
    loaded_points, \* history: point geometries when the run started
    first_points,  \* history: point geometries before the first run
    runs           \* history: number of successful runs completed

vars == <<pc, points_file, rects_file, point_layer, rect_layer, sorted_rects,
          rect_index, point_map, editing, edit_buffer, i, success, exit_code,
          session, loaded_points, first_points, runs>>

----------------------------------------------------------------------------
(* Bounds and input catalogue *)

MaxRects == 3
MaxPoints == 2

Rect(cx, cy, h) == [xmin |-> cx - h, ymin |-> cy - h, xmax |-> cx + h, ymax |-> cy + h]
Pt(x, y) == [x |-> x, y |-> y]

\* big square at the origin; small and big square around (4,0) (concentric,
\* hence overlapping each other and tied in centroid X); big square at (8,2)
RectShapes == {Rect(0, 0, 2), Rect(4, 0, 1), Rect(4, 0, 2), Rect(8, 2, 2)}

\* interior points of each shape and a point on the edge shared by two shapes
PointCatalogue == <<Pt(1, 1), Pt(-1, 0), Pt(4, 0), Pt(2, 0), Pt(9, 3)>>

RECURSIVE SeqsUpTo(_, _)
SeqsUpTo(S, n) ==
    IF n = 0 THEN {<<>>}
    ELSE LET shorter == SeqsUpTo(S, n - 1)
         IN  shorter \cup {Append(s, e) : s \in {t \in shorter : Len(t) = n - 1}, e \in S}

RectFiles == SeqsUpTo(RectShapes, MaxRects)

\* point files list distinct catalogue points in catalogue order
PointFiles ==
    LET idx == {s \in SeqsUpTo(1..Len(PointCatalogue), MaxPoints) :
                   \A k \in 1..(Len(s) - 1) : s[k] < s[k + 1]}
    IN  {[k \in 1..Len(s) |-> PointCatalogue[s[k]]] : s \in idx}

----------------------------------------------------------------------------
(* Geometry library *)

Range(s) == {s[k] : k \in 1..Len(s)}

Features(file) == [k \in 1..Len(file) |-> [id |-> k, geom |-> file[k]]]

Centroid(r) == Pt((r.xmin + r.xmax) \div 2, (r.ymin + r.ymax) \div 2)

\* polygon.contains(point): the point lies in the interior
Contains(r, p) == r.xmin < p.x /\ p.x < r.xmax /\ r.ymin < p.y /\ p.y < r.ymax

PointBoundingBox(p) == [xmin |-> p.x, ymin |-> p.y, xmax |-> p.x, ymax |-> p.y]

BoxIntersects(a, b) ==
    a.xmin <= b.xmax /\ b.xmin <= a.xmax /\ a.ymin <= b.ymax /\ b.ymin <= a.ymax

----------------------------------------------------------------------------
(* load_layer *)

\* the two failures of load_layer both yield None
load_layer(status) == IF status = "ok" THEN "layer" ELSE "None"

PathStatus == {"ok", "missing", "invalid"}

----------------------------------------------------------------------------
(* get_sorted_rectangles: list.sort(key = centroid x), a stable sort *)

SortKey(feat) == Centroid(feat.geom).x

\* faulty variant of InsertSorted: an equal key goes in front (ties reversed)
RECURSIVE InsertBeforeTies(_, _)
InsertBeforeTies(sorted, feat) ==
    IF sorted = <<>> THEN <<feat>>
    ELSE IF SortKey(sorted[Len(sorted)]) < SortKey(feat)
         THEN Append(sorted, feat)
         ELSE Append(InsertBeforeTies(SubSeq(sorted, 1, Len(sorted) - 1), feat),
                     sorted[Len(sorted)])

\* place feat behind every element whose key is not larger
RECURSIVE InsertSorted(_, _)
InsertSorted(sorted, feat) ==
    IF sorted = <<>> THEN <<feat>>
    ELSE IF SortKey(sorted[Len(sorted)]) <= SortKey(feat)
         THEN Append(sorted, feat)
         ELSE Append(InsertSorted(SubSeq(sorted, 1, Len(sorted) - 1), feat),
                     sorted[Len(sorted)])

RECURSIVE StableSort(_)
StableSort(feats) ==
    IF feats = <<>> THEN <<>>
    ELSE InsertSorted(StableSort(SubSeq(feats, 1, Len(feats) - 1)), feats[Len(feats)])

get_sorted_rectangles(file) == StableSort(Features(file))

----------------------------------------------------------------------------
(* create_spatial_index: the bounding box of every feature, by id *)

create_spatial_index(file) == [k \in 1..Len(file) |-> file[k]]

\* rect_index.intersects(box): the ids whose bounding box meets the box
Candidates(index, box) == {k \in DOMAIN index : BoxIntersects(index[k], box)}

----------------------------------------------------------------------------
(* map_points_to_rectangles *)

RECURSIVE Perms(_)
Perms(S) ==
    IF S = {} THEN {<<>>}
    ELSE UNION {{<<e>> \o t : t \in Perms(S \ {e})} : e \in S}

\* faulty variant of AssignedRects: no break, every containing candidate gets the point
AssignedRectsNoBreak(file, p, cand) ==
    SelectSeq(cand, LAMBDA rid : Contains(file[rid], p))

\* faulty variant of AssignedRects: the first candidate of the index wins
\* without the exact containment test
AssignedRectsByBox(file, p, cand) ==
    IF cand = <<>> THEN <<>> ELSE <<cand[1]>>

\* the rectangles whose bucket receives p when the index answers cand:
\* the first candidate that contains p, then break
AssignedRects(file, p, cand) ==
    LET hits == SelectSeq(cand, LAMBDA rid : Contains(file[rid], p))
    IN  IF hits = <<>> THEN <<>> ELSE <<hits[1]>>

\* what the inner loop can do with point p: one outcome per order in which
\* the index may list the candidates
Outcomes(rfile, index, p) ==
    {AssignedRects(rfile, p, cand) : cand \in Perms(Candidates(index, PointBoundingBox(p)))}

\* the dictionary built from the per-point outcomes: one key per rectangle,
\* points appended in enumeration order
BuildMap(rfile, pfile, pick) ==
    [rid \in 1..Len(rfile) |->
        SelectSeq(Features(pfile), LAMBDA f : rid \in Range(pick[f.id]))]

----------------------------------------------------------------------------
(* move_points *)

\* faulty variant of TargetIndex: no wrap, the last rectangle keeps its points
TargetIndexNoWrap(idx, n) == IF idx + 1 < n THEN idx + 1 ELSE idx

TargetIndex(idx, n) == (idx + 1) % n

\* faulty variant of NewGeom: the offset is dropped, the point lands on the
\* target centroid
NewGeomAtCentroid(old_point, current_centroid, target_centroid) ==
    target_centroid

NewGeom(old_point, current_centroid, target_centroid) ==
    LET offset_x == old_point.x - current_centroid.x
        offset_y == old_point.y - current_centroid.y
    IN  Pt(target_centroid.x + offset_x, target_centroid.y + offset_y)

\* point_layer.changeGeometry(fid, geom) on the edit buffer
ChangeGeometry(buffer, fid, geom) ==
    {e \in buffer : e.id # fid} \cup {[id |-> fid, geom |-> geom]}

\* the geometry the layer shows for a feature: staged change over stored one
LayerGeom(file, buffer, fid) ==
    IF \E e \in buffer : e.id = fid
    THEN (CHOOSE e \in buffer : e.id = fid).geom
    ELSE file[fid]

\* the edit buffer after the first k points of the bucket have been staged
RECURSIVE StagePoints(_, _, _, _, _)
StagePoints(buffer, bucket, k, cur, tgt) ==
    IF k = 0 THEN buffer
    ELSE ChangeGeometry(StagePoints(buffer, bucket, k - 1, cur, tgt),
                        bucket[k].id, NewGeom(bucket[k].geom, cur, tgt))

\* faulty variant of NoRectangles: the emptiness check is missing
NoRectanglesUnchecked(rects) == FALSE

\* "if not sorted_rects"
NoRectangles(rects) == rects = <<>>

\* faulty variant of LoopDone: the commit is reached inside the loop
LoopDoneEarly(idx, n) == idx >= 1

\* the for loop over sorted_rects has processed every rectangle
LoopDone(idx, n) == idx = n

\* faulty variant of rollBack: the staged changes stay in the buffer
rollBackKeeps(buffer) == buffer

\* point_layer.rollBack(): every staged change is discarded
rollBack(buffer) == {}

\* point_layer.commitChanges() succeeding: the staged changes become durable
commitChanges(file, buffer) == [k \in 1..Len(file) |-> LayerGeom(file, buffer, k)]

Repeat(e, n) == [k \in 1..n |-> e]

----------------------------------------------------------------------------
(* main *)

\* faulty variant of ExitCode: the failure is not turned into an exit status
ExitCodeIgnoresFailure(ok) == 0

\* "if not success: sys.exit(1)", else the interpreter ends with status 0
ExitCode(ok) == IF ok THEN 0 ELSE 1

----------------------------------------------------------------------------
(* The process *)

Init ==
    /\ pc = "start"
    /\ points_file \in PointFiles
    /\ rects_file \in RectFiles
    /\ point_layer = "None"
    /\ rect_layer = "None"
    /\ sorted_rects = <<>>
    /\ rect_index = <<>>
    /\ point_map = <<>>
    /\ editing = FALSE
    /\ edit_buffer = {}
    /\ i = 0
    /\ success = FALSE
    /\ exit_code = -1
    /\ session = <<>>
    /\ loaded_points = points_file
    /\ first_points = points_file
    /\ runs = 0

\* process_layers: both load_layer calls
LoadLayers ==
    /\ pc = "start"
    /\ \E ps \in PathStatus, rs \in PathStatus :
          /\ point_layer' = load_layer(ps)
          /\ rect_layer' = load_layer(rs)
    /\ loaded_points' = points_file
    /\ pc' = "loaded"
    /\ UNCHANGED <<points_file, rects_file, sorted_rects, rect_index, point_map,
                   editing, edit_buffer, i, success, exit_code, session,
                   first_points, runs>>

\* process_layers: "if not point_layer or not rect_layer: return False"
LoadFailed ==
    /\ pc = "loaded"
    /\ point_layer = "None" \/ rect_layer = "None"
    /\ success' = FALSE
    /\ pc' = "returned"
    /\ UNCHANGED <<points_file, rects_file, point_layer, rect_layer, sorted_rects,
                   rect_index, point_map, editing, edit_buffer, i, exit_code,
                   session, loaded_points, first_points, runs>>

GetSortedRectangles ==
    /\ pc = "loaded"
    /\ point_layer = "layer" /\ rect_layer = "layer"
    /\ sorted_rects' = get_sorted_rectangles(rects_file)
    /\ pc' = "sorted"
    /\ UNCHANGED <<points_file, rects_file, point_layer, rect_layer, rect_index,
                   point_map, editing, edit_buffer, i, success, exit_code,
                   session, loaded_points, first_points, runs>>

CreateSpatialIndex ==
    /\ pc = "sorted"
    /\ rect_index' = create_spatial_index(rects_file)
    /\ pc' = "indexed"
    /\ UNCHANGED <<points_file, rects_file, point_layer, rect_layer, sorted_rects,
                   point_map, editing, edit_buffer, i, success, exit_code,
                   session, loaded_points, first_points, runs>>

\* the order in which the index lists the candidates of a point is not
\* specified: every order is possible, for each point on its own
MapPointsToRectangles ==
    /\ pc = "indexed"
    /\ \E pick \in [1..Len(points_file) ->
                      UNION {Outcomes(rects_file, rect_index, points_file[k]) :
                                k \in 1..Len(points_file)}] :
          /\ \A k \in 1..Len(points_file) :
                pick[k] \in Outcomes(rects_file, rect_index, points_file[k])
          /\ point_map' = BuildMap(rects_file, points_file, pick)
    /\ pc' = "mapped"
    /\ UNCHANGED <<points_file, rects_file, point_layer, rect_layer, sorted_rects,
                   rect_index, editing, edit_buffer, i, success, exit_code,
                   session, loaded_points, first_points, runs>>

\* move_points: "if not sorted_rects: return False"
MoveNoRectangles ==
    /\ pc = "mapped"
    /\ NoRectangles(sorted_rects)
    /\ success' = FALSE
    /\ pc' = "returned"
    /\ UNCHANGED <<points_file, rects_file, point_layer, rect_layer, sorted_rects,
                   rect_index, point_map, editing, edit_buffer, i, exit_code,
                   session, loaded_points, first_points, runs>>

StartEditing ==
    /\ pc = "mapped"
    /\ ~NoRectangles(sorted_rects)
    /\ editing' = TRUE
    /\ i' = 0
    /\ session' = Append(session, "startEditing")
    /\ pc' = "staging"
    /\ UNCHANGED <<points_file, rects_file, point_layer, rect_layer, sorted_rects,
                   rect_index, point_map, edit_buffer, success, exit_code,
                   loaded_points, first_points, runs>>

num_rects == Len(sorted_rects)

current_rect == sorted_rects[i + 1]

target_rect == sorted_rects[TargetIndex(i, num_rects) + 1]

\* "if current_rect.id() not in point_map: continue", an empty list likewise
points_to_move ==
    IF current_rect.id \in DOMAIN point_map THEN point_map[current_rect.id] ELSE <<>>

\* one iteration of the loop over sorted_rects, every point of the bucket staged
StageRect ==
    /\ pc = "staging"
    /\ i < num_rects
    /\ ~LoopDone(i, num_rects)
    /\ edit_buffer' = StagePoints(edit_buffer, points_to_move, Len(points_to_move),
                                  Centroid(current_rect.geom), Centroid(target_rect.geom))
    /\ session' = session \o Repeat("changeGeometry", Len(points_to_move))
    /\ i' = i + 1
    /\ UNCHANGED <<pc, points_file, rects_file, point_layer, rect_layer, sorted_rects,
                   rect_index, point_map, editing, success, exit_code,
                   loaded_points, first_points, runs>>

\* an exception while the point after the first k of the bucket is computed
\* or staged
StageRaise ==
    /\ pc = "staging"
    /\ i < num_rects
    /\ ~LoopDone(i, num_rects)
    /\ \E k \in 0..(Len(points_to_move) - 1) :
          /\ edit_buffer' = StagePoints(edit_buffer, points_to_move, k,
                                        Centroid(current_rect.geom),
                                        Centroid(target_rect.geom))
          /\ session' = (session \o Repeat("changeGeometry", k)) \o <<"raise">>
    /\ pc' = "except"
    /\ UNCHANGED <<points_file, rects_file, point_layer, rect_layer, sorted_rects,
                   rect_index, point_map, editing, i, success, exit_code,
                   loaded_points, first_points, runs>>

\* "if point_layer.commitChanges(): return True"
CommitOk ==
    /\ pc = "staging"
    /\ LoopDone(i, num_rects)
    /\ points_file' = commitChanges(points_file, edit_buffer)
    /\ edit_buffer' = {}
    /\ editing' = FALSE
    /\ session' = Append(session, "commitChanges")
    /\ success' = TRUE
    /\ runs' = runs + 1
    /\ pc' = "returned"
    /\ UNCHANGED <<rects_file, point_layer, rect_layer, sorted_rects, rect_index,
                   point_map, i, exit_code, loaded_points, first_points>>

\* commitChanges() returns False: nothing is written, the session stays open
CommitFail ==
    /\ pc = "staging"
    /\ LoopDone(i, num_rects)
    /\ session' = Append(session, "commitFailed")
    /\ pc' = "commit_failed"
    /\ UNCHANGED <<points_file, rects_file, point_layer, rect_layer, sorted_rects,
                   rect_index, point_map, editing, edit_buffer, i, success,
                   exit_code, loaded_points, first_points, runs>>

\* the else branch of the commit and the except clause
RollBack ==
    /\ pc \in {"commit_failed", "except"}
    /\ edit_buffer' = rollBack(edit_buffer)
    /\ editing' = FALSE
    /\ session' = Append(session, "rollBack")
    /\ success' = FALSE
    /\ pc' = "returned"
    /\ UNCHANGED <<points_file, rects_file, point_layer, rect_layer, sorted_rects,
                   rect_index, point_map, i, exit_code, loaded_points,
                   first_points, runs>>

\* main: the exit status of the process
Exit ==
    /\ pc = "returned"
    /\ exit_code' = ExitCode(success)
    /\ pc' = "exited"
    /\ UNCHANGED <<points_file, rects_file, point_layer, rect_layer, sorted_rects,
                   rect_index, point_map, editing, edit_buffer, i, success,
                   session, loaded_points, first_points, runs>>

\* the program is started again on the same two files
Rerun ==
    /\ pc = "exited"
    /\ runs < Len(rects_file)
    /\ pc' = "start"
    /\ point_layer' = "None"
    /\ rect_layer' = "None"
    /\ sorted_rects' = <<>>
    /\ rect_index' = <<>>
    /\ point_map' = <<>>
    /\ editing' = FALSE
    /\ edit_buffer' = {}
    /\ i' = 0
    /\ success' = FALSE
    /\ exit_code' = -1
    /\ session' = <<>>
    /\ loaded_points' = points_file
    /\ UNCHANGED <<points_file, rects_file, first_points, runs>>

Next ==
    \/ LoadLayers
    \/ LoadFailed
    \/ GetSortedRectangles
    \/ CreateSpatialIndex
    \/ MapPointsToRectangles
    \/ MoveNoRectangles
    \/ StartEditing
    \/ StageRect
    \/ StageRaise
    \/ CommitOk
    \/ CommitFail
    \/ RollBack
    \/ Exit
    \/ Rerun

Spec == Init /\ [][Next]_vars

----------------------------------------------------------------------------
(* Vocabulary of the properties *)

Count(seq, e) == Cardinality({k \in 1..Len(seq) : seq[k] = e})

Last(seq) == seq[Len(seq)]

Finished == pc \in {"returned", "exited"}

\* the run opened an edit session and closed it by a successful commit
RunSucceeded == Finished /\ session # <<>> /\ Last(session) = "commitChanges"

\* the run failed after the edit session was opened
RunFailedInSession ==
    Finished /\ ("commitFailed" \in Range(session) \/ "raise" \in Range(session))

Mapped == pc \notin {"start", "loaded", "sorted", "indexed"} /\ point_layer = "layer"
             /\ rect_layer = "layer"

\* position of the cyclic successor, as the specification words it
SuccessorPos(idx, n) == IF idx + 1 = n THEN 0 ELSE idx + 1

Bucket(idx) == point_map[sorted_rects[idx + 1].id]

Offset(p, c) == Pt(p.x - c.x, p.y - c.y)

InteriorsDisjoint(a, b) ==
    a.xmax <= b.xmin \/ b.xmax <= a.xmin \/ a.ymax <= b.ymin \/ b.ymax <= a.ymin

NonOverlapping ==
    \A a, b \in 1..Len(rects_file) :
        a # b => InteriorsDisjoint(rects_file[a], rects_file[b])

Width(r) == r.xmax - r.xmin

Height(r) == r.ymax - r.ymin

EqualSized ==
    \A a, b \in 1..Len(rects_file) :
        /\ Width(rects_file[a]) = Width(rects_file[b])
        /\ Height(rects_file[a]) = Height(rects_file[b])

ContainedByNone(p) == \A r \in 1..Len(rects_file) : ~Contains(rects_file[r], p)

TotalAssigned ==
    Cardinality({k \in 1..Len(loaded_points) :
                    \E rid \in DOMAIN point_map :
                        \E j \in 1..Len(point_map[rid]) : point_map[rid][j].id = k})

----------------------------------------------------------------------------
(* C1: after a successful run every point of the bucket of the rectangle at
   position idx has the committed geometry targetCentroid + (oldPoint -
   currentCentroid), the target being the rectangle at (idx + 1) mod N and
   oldPoint the geometry as loaded; each point is changed exactly once. *)
C1_Translation ==
    RunSucceeded =>
        /\ \A idx \in 0..(Len(sorted_rects) - 1) :
              \A j \in 1..Len(Bucket(idx)) :
                 LET fid == Bucket(idx)[j].id
                     cur == Centroid(sorted_rects[idx + 1].geom)
                     tgt == Centroid(sorted_rects[SuccessorPos(idx, Len(sorted_rects)) + 1].geom)
                 IN  /\ points_file[fid].x = tgt.x + (loaded_points[fid].x - cur.x)
                     /\ points_file[fid].y = tgt.y + (loaded_points[fid].y - cur.y)
        /\ Count(session, "changeGeometry") = TotalAssigned

\* three rectangles, a point of the last one wraps to the first, and a point
\* of the first one lands inside the second, which is processed after it
C1_Witness ==
    /\ RunSucceeded
    /\ Len(sorted_rects) = 3
    /\ Bucket(2) # <<>>
    /\ \E j \in 1..Len(Bucket(0)) :
          /\ Contains(sorted_rects[2].geom, points_file[Bucket(0)[j].id])
          /\ ~Contains(sorted_rects[2].geom, loaded_points[Bucket(0)[j].id])

----------------------------------------------------------------------------
(* C2 as stated: for non-overlapping rectangles of any sizes, after a
   successful run every assigned point lies inside the cyclic successor of
   its rectangle, with the same offset from the successor's centroid. *)
C2_InsideSuccessor ==
    (RunSucceeded /\ NonOverlapping) =>
        \A idx \in 0..(Len(sorted_rects) - 1) :
           \A j \in 1..Len(Bucket(idx)) :
              LET fid == Bucket(idx)[j].id
                  cur == sorted_rects[idx + 1].geom
                  tgt == sorted_rects[SuccessorPos(idx, Len(sorted_rects)) + 1].geom
              IN  /\ Contains(tgt, points_file[fid])
                  /\ Offset(points_file[fid], Centroid(tgt))
                        = Offset(loaded_points[fid], Centroid(cur))

(* C2 amended: the offset is always preserved; the point lies inside the
   successor whenever the successor is at least as wide and as tall as the
   rectangle the point came from. *)
C2_OffsetPreserved ==
    (RunSucceeded /\ NonOverlapping) =>
        \A idx \in 0..(Len(sorted_rects) - 1) :
           \A j \in 1..Len(Bucket(idx)) :
              LET fid == Bucket(idx)[j].id
                  cur == sorted_rects[idx + 1].geom
                  tgt == sorted_rects[SuccessorPos(idx, Len(sorted_rects)) + 1].geom
              IN  /\ Offset(points_file[fid], Centroid(tgt))
                        = Offset(loaded_points[fid], Centroid(cur))
                  /\ (Width(tgt) >= Width(cur) /\ Height(tgt) >= Height(cur))
                        => Contains(tgt, points_file[fid])

\* a point with a non-zero offset moved into a different, large enough successor
C2_Witness ==
    /\ RunSucceeded
    /\ NonOverlapping
    /\ Len(sorted_rects) >= 2
    /\ \E idx \in 0..(Len(sorted_rects) - 1) :
          \E j \in 1..Len(Bucket(idx)) :
             LET cur == sorted_rects[idx + 1].geom
                 tgt == sorted_rects[SuccessorPos(idx, Len(sorted_rects)) + 1].geom
             IN  /\ Offset(loaded_points[Bucket(idx)[j].id], Centroid(cur)) # Pt(0, 0)
                 /\ Width(tgt) >= Width(cur) /\ Height(tgt) >= Height(cur)
                 /\ Contains(tgt, points_file[Bucket(idx)[j].id])

----------------------------------------------------------------------------
(* C3 as stated: given a fixed order of N rectangles, N successful runs
   return every initially assigned point to its original coordinates. *)
C3_ReturnsAfterN ==
    (runs = Len(rects_file) /\ runs >= 1) =>
        \A k \in 1..Len(first_points) :
           ~ContainedByNone(first_points[k]) => points_file[k] = first_points[k]

(* C3 amended: for rectangles of equal width and height with pairwise
   disjoint interiors, after r successful runs a point that started in the
   rectangle at position idx lies in the rectangle at position
   (idx + r) mod N with its original offset, and after N runs it has its
   original coordinates. *)
C3_CycleOfEqualRects ==
    (NonOverlapping /\ EqualSized) =>
        LET order == get_sorted_rectangles(rects_file)
            n == Len(order)
        IN  \A k \in 1..Len(first_points) :
               \A idx \in 0..(n - 1) :
                  Contains(order[idx + 1].geom, first_points[k]) =>
                     LET now == order[((idx + runs) % n) + 1].geom
                     IN  /\ Contains(now, points_file[k])
                         /\ Offset(points_file[k], Centroid(now))
                               = Offset(first_points[k], Centroid(order[idx + 1].geom))
                         /\ runs = n => points_file[k] = first_points[k]

\* the third successful run over three equal rectangles has ended and a point
\* that was moved by every run is back
C3_Witness ==
    /\ pc = "exited"
    /\ runs = 3
    /\ Len(rects_file) = 3
    /\ NonOverlapping /\ EqualSized
    /\ \E k \in 1..Len(first_points) :
          /\ ~ContainedByNone(first_points[k])
          /\ points_file[k] = first_points[k]
          /\ loaded_points[k] # first_points[k]

----------------------------------------------------------------------------
(* C4: on every failing path of move_points after the edit session was
   opened, rollBack has been called, the result is False and every point
   geometry of the layer is what it was before the run. *)
C4_AllOrNothing ==
    RunFailedInSession =>
        /\ Last(session) = "rollBack"
        /\ success = FALSE
        /\ points_file = loaded_points
        /\ \A k \in 1..Len(points_file) :
              LayerGeom(points_file, edit_buffer, k) = loaded_points[k]

\* an exception after one of two points had been staged
C4_Witness ==
    /\ RunFailedInSession
    /\ "raise" \in Range(session)
    /\ Count(session, "changeGeometry") >= 1
    /\ TotalAssigned >= 2

----------------------------------------------------------------------------
(* C5: a point contained by no rectangle is in no bucket, no change is ever
   staged for it, and its geometry stays what it was before the run. *)
C5_OutsideUntouched ==
    \A k \in 1..Len(loaded_points) :
       ContainedByNone(loaded_points[k]) =>
          /\ \A rid \in DOMAIN point_map :
                \A j \in 1..Len(point_map[rid]) : point_map[rid][j].id # k
          /\ \A e \in edit_buffer : e.id # k
          /\ points_file[k] = loaded_points[k]
          /\ LayerGeom(points_file, edit_buffer, k) = loaded_points[k]

\* a successful run that moved a point and left alone a point lying on the
\* edge of a rectangle (a candidate of the index, not contained)
C5_Witness ==
    /\ RunSucceeded
    /\ TotalAssigned >= 1
    /\ \E k \in 1..Len(loaded_points) :
          /\ ContainedByNone(loaded_points[k])
          /\ Candidates(rect_index, PointBoundingBox(loaded_points[k])) # {}

----------------------------------------------------------------------------
(* C6: the assignment is exclusive for every input: a point is in at most
   one bucket and at most once there, the owner of the bucket contains it,
   and every rectangle id is a key. *)
C6_Exclusive ==
    Mapped =>
        /\ DOMAIN point_map = 1..Len(rects_file)
        /\ \A k \in 1..Len(loaded_points) :
              Cardinality({<<rid, j>> \in (DOMAIN point_map) \X (1..Len(loaded_points)) :
                              j <= Len(point_map[rid]) /\ point_map[rid][j].id = k}) <= 1
        /\ \A rid \in DOMAIN point_map :
              \A j \in 1..Len(point_map[rid]) :
                 /\ point_map[rid][j].id \in 1..Len(loaded_points)
                 /\ point_map[rid][j].geom = loaded_points[point_map[rid][j].id]
                 /\ Contains(rects_file[rid], point_map[rid][j].geom)

\* a point inside two overlapping rectangles has been assigned
C6_Witness ==
    /\ pc = "mapped"
    /\ \E k \in 1..Len(loaded_points) :
          \E a, b \in 1..Len(rects_file) :
             /\ a # b
             /\ Contains(rects_file[a], loaded_points[k])
             /\ Contains(rects_file[b], loaded_points[k])
             /\ point_map[a] # <<>>

----------------------------------------------------------------------------
(* C7: when a layer fails to load or the rectangle layer has no feature,
   the run returns failure and no edit session is ever opened and no
   geometry change staged. *)
C7_FatalBeforeMutation ==
    (pc # "start" /\ (point_layer = "None" \/ rect_layer = "None" \/ Len(rects_file) = 0)) =>
        /\ session = <<>>
        /\ editing = FALSE
        /\ edit_buffer = {}
        /\ points_file = loaded_points
        /\ pc \in {"loaded", "sorted", "indexed", "mapped", "returned", "exited"}
        /\ Finished => success = FALSE

\* both layers loaded, points present, no rectangle: the run has failed
C7_Witness ==
    /\ pc = "exited"
    /\ point_layer = "layer" /\ rect_layer = "layer"
    /\ Len(rects_file) = 0
    /\ Len(points_file) >= 1
    /\ success = FALSE

----------------------------------------------------------------------------
(* C8: the exit code is 0 exactly when both layers loaded and all updates
   were committed, and 1 in every other case. *)
C8_ExitCode ==
    pc = "exited" =>
        /\ exit_code \in {0, 1}
        /\ exit_code = 0 <=>
              (point_layer = "layer" /\ rect_layer = "layer" /\ RunSucceeded)

\* a run whose commit failed has exited
C8_Witness ==
    /\ pc = "exited"
    /\ "commitFailed" \in Range(session)
    /\ exit_code = 1

----------------------------------------------------------------------------
(* C9: get_sorted_rectangles returns every rectangle feature once, in
   ascending order of centroid x, equal keys in enumeration order; no
   rectangle gives the empty list. *)
C9_StableSorted ==
    (pc \notin {"start", "loaded"} /\ point_layer = "layer" /\ rect_layer = "layer") =>
        /\ Len(sorted_rects) = Len(rects_file)
        /\ \A a \in 1..Len(sorted_rects) :
              /\ sorted_rects[a].id \in 1..Len(rects_file)
              /\ sorted_rects[a].geom = rects_file[sorted_rects[a].id]
        /\ \A a, b \in 1..Len(sorted_rects) :
              a < b =>
                 \/ Centroid(sorted_rects[a].geom).x < Centroid(sorted_rects[b].geom).x
                 \/ /\ Centroid(sorted_rects[a].geom).x = Centroid(sorted_rects[b].geom).x
                    /\ sorted_rects[a].id < sorted_rects[b].id

\* an input that is out of order and has two rectangles of equal centroid x
C9_Witness ==
    /\ pc = "sorted"
    /\ sorted_rects # Features(rects_file)
    /\ \E a, b \in 1..Len(rects_file) :
          a # b /\ Centroid(rects_file[a]).x = Centroid(rects_file[b]).x

----------------------------------------------------------------------------
(* C10: the session is begun before the first change is staged, the commit
   is attempted only after the loop has processed every rectangle, rollBack
   follows only a failed commit or an exception, and a run that opened a
   session ends with it closed by exactly one of commit and rollBack. *)
C10_SessionOrder ==
    /\ \A k \in 1..Len(session) : (session[k] = "startEditing") <=> (k = 1)
    /\ \A k \in 1..Len(session) :
          session[k] \in {"commitChanges", "commitFailed"} =>
             /\ i = Len(sorted_rects)
             /\ Count(session, "changeGeometry") = TotalAssigned
             /\ \A m \in 1..Len(session) : session[m] = "changeGeometry" => m < k
    /\ \A k \in 1..Len(session) :
          session[k] = "rollBack" =>
             k > 1 /\ session[k - 1] \in {"commitFailed", "raise"}
    /\ Count(session, "commitChanges") + Count(session, "rollBack") <= 1
    /\ editing <=> (session # <<>> /\ Count(session, "commitChanges") = 0
                                   /\ Count(session, "rollBack") = 0)
    /\ (Finished /\ session # <<>>) =>
          /\ editing = FALSE
          /\ Last(session) \in {"commitChanges", "rollBack"}

\* both ways of closing seen over at least two rectangles: here the rollback
\* after a failed commit
C10_Witness ==
    /\ Finished
    /\ Len(sorted_rects) >= 2
    /\ TotalAssigned >= 1
    /\ Len(session) >= 4
    /\ session[Len(session) - 1] = "commitFailed"
    /\ Last(session) = "rollBack"

====
